---- MODULE Spec2Model ----
(***************************************************************************)
(* A model of the JobSearch ingestion-and-persistence pipeline:            *)
(*   - JobManager (src/job_manager.py): the CSV store and save_new_jobs,   *)
(*     stepped one file operation at a time, with I/O failures and         *)
(*     process interruption as environment choices;                        *)
(*   - AdzunaJobFetcher (src/job_fetch.py): _make_api_request, one action  *)
(*     per HTTP attempt, and the page loop of fetch_jobs;                  *)
(*   - ResumeMatchEngine (src/resume_match.py): match_job_to_resume, one   *)
(*     action per backend call, and _exponential_backoff.                  *)
(*   - JobSearchPipeline (src/main.py): run_pipeline, which fetches,       *)
(*     scores every record and saves the batch.                            *)
(* SpecStore runs the store, SpecFetch the fetcher, SpecScore the scoring  *)
(* engine, SpecBackoff the backoff computation, SpecPipeline one run of    *)
(* run_pipeline over the three components (SpecPipelineFair: the same run  *)
(* under weak fairness of its steps).                                      *)
(***************************************************************************)
EXTENDS Integers, Sequences, FiniteSets

VARIABLES
    \* ---- JobManager ----
    csv_file,      \* the file at csv_path: [exists, rows]
    temp_file,     \* the file at temp_path: [exists, rows]
    save_pc,       \* position inside save_new_jobs
    jobs,          \* argument of the current (or last) save_new_jobs call
    new_jobs,      \* local new_jobs
    combined_df,   \* local combined_df (rows as held in memory)
    crashed,       \* the process was interrupted inside save_new_jobs
    raised,        \* save_new_jobs ended by an exception leaving the handler
    \* history of the current call, kept for the properties
    pre_file,      \* csv_file when the call started
    pre_temp,      \* temp_file when the call started
    file_ops,      \* file-system writes performed by the call, in order
    ids_read_failed, \* the read inside get_existing_job_ids failed
    failed_step,   \* the step of the try block that failed ("none": none)
    prev_clean,    \* the previous call returned with no failure
    repeat,        \* the call has the same batch as the previous call
    \* ---- AdzunaJobFetcher ----
    source,          \* the listing source: its non-empty pages, in order
    endless,         \* the source serves its last page again for ever after
    max_results,     \* argument of fetch_jobs (0: no cap)
    fetch_pc,        \* position inside fetch_jobs
    page,            \* local page
    all_jobs,        \* local all_jobs
    data,            \* results of the page just received
    result,          \* the list fetch_jobs returned
    attempt,         \* loop variable of _make_api_request
    \* history of the current call, kept for the properties
    pages_requested, \* page numbers passed to _make_api_request, in order
    http_count,      \* requests.get calls of the current _make_api_request
    sleeps,          \* time.sleep arguments of the current _make_api_request
    last_resp,       \* the latest HTTP outcome of the current _make_api_request
    any_failure,     \* some HTTP request of this fetch did not succeed
    failed_page,     \* the page whose _make_api_request raised (0: none)
    \* ---- ResumeMatchEngine.match_job_to_resume ----
    score_pc,        \* position inside match_job_to_resume
    retry_count,     \* local retry_count
    match_result,    \* the value match_job_to_resume returned
    \* history of the current call, kept for the properties
    response_text,   \* response.text of the latest backend call that answered
    call_log,        \* per backend call: the error text it ended in ("": none)
    backoff_log,     \* the backoff sleeps: retry count passed and delay base
    \* ---- ResumeMatchEngine._exponential_backoff ----
    backoff_arg,     \* argument retry_count
    backoff_delay,   \* local delay, in seconds
    backoff_jitter,  \* local jitter, in tenths of a second
    backoff_return,  \* the value returned, in tenths of a second
    \* ---- JobSearchPipeline.run_pipeline ----
    pipe_pc,         \* phase of run_pipeline
    pipe_jobs,       \* local jobs
    job_index,       \* position of the for loop over jobs
    retrying,        \* the current scoring call is the retry of the except branch
    \* history of the run, kept for the properties
    fetched,         \* the list as fetch_all_jobs returned it
    pipe_log,        \* scoring calls and sleeps of the for loop, in order
    pipe_raised      \* an exception left run_pipeline

storeVars == <<csv_file, temp_file, save_pc, jobs, new_jobs, combined_df,
               crashed, raised, pre_file, pre_temp, file_ops, ids_read_failed,
               failed_step, prev_clean, repeat>>

fetchVars == <<source, endless, max_results, fetch_pc, page, all_jobs, data, result,
               attempt, pages_requested, http_count, sleeps, last_resp,
               any_failure, failed_page>>

scoreVars == <<score_pc, retry_count, match_result, response_text, call_log,
               backoff_log>>

backoffVars == <<backoff_arg, backoff_delay, backoff_jitter, backoff_return>>

pipeVars == <<pipe_pc, pipe_jobs, job_index, retrying, fetched, pipe_log,
              pipe_raised>>

notStoreVars == <<fetchVars, scoreVars, backoffVars, pipeVars>>
notFetchVars == <<storeVars, scoreVars, backoffVars, pipeVars>>
notScoreVars == <<storeVars, fetchVars, backoffVars, pipeVars>>
notBackoffVars == <<storeVars, fetchVars, scoreVars, pipeVars>>

vars == <<storeVars, fetchVars, scoreVars, backoffVars, pipeVars>>

-----------------------------------------------------------------------------
(* Bounds of the model *)

MaxBatch == 2
MaxRows == 2
MaxPages == 2
MaxPageItems == 2
MaxCap == 3
MaxTextLen == 2
MaxRetryCount == 9

-----------------------------------------------------------------------------
(* Values *)

\* Python None, and the NaN pandas reads for an empty cell.
None == "<None>"
NaN == "<NaN>"

\* str(x) inside an f-string: None prints as the text None.
Str(x) == IF x = None THEN "None" ELSE x

\* Raw items of the listing API's "results" array (the fields the model
\* follows). The second is a re-post of the first with no description; the
\* third has no company.
RawItems ==
    << [company |-> "Acme", title |-> "Dev", location |-> "NYC", description |-> "d1"],
       [company |-> "Acme", title |-> "Dev", location |-> "NYC", description |-> None],
       [company |-> None,   title |-> "Dev", location |-> "NYC", description |-> "d1"] >>

\* fetch_jobs' derived identity.
JobId(item) ==
    Str(item.company) \o "_" \o Str(item.title) \o "_" \o Str(item.location)

\* The record fetch_jobs appends for one raw item.
JobRecord(item) ==
    [job_id      |-> JobId(item),
     title       |-> item.title,
     company     |-> item.company,
     location    |-> item.location,
     description |-> item.description,
     source      |-> "Adzuna"]

Jobs == {JobRecord(RawItems[i]) : i \in DOMAIN RawItems}

SeqMap(Op(_), s) == [i \in DOMAIN s |-> Op(s[i])]

Batches == UNION {[1..n -> Jobs] : n \in 0..MaxBatch}

-----------------------------------------------------------------------------
(* The CSV file and pandas' conversions *)

NoFile == [exists |-> FALSE, rows |-> <<>>]
File(rows) == [exists |-> TRUE, rows |-> rows]

\* DataFrame.to_csv writes None and NaN as an empty cell, text as itself.
CsvCell(v) == IF v \in {None, NaN} THEN "" ELSE v

\* pandas.read_csv reads an empty cell as NaN, text as itself.
ReadCell(t) == IF t = "" THEN NaN ELSE t

CsvRow(r) == [f \in DOMAIN r |-> CsvCell(r[f])]
ReadRow(r) == [f \in DOMAIN r |-> ReadCell(r[f])]

to_csv(df) == SeqMap(CsvRow, df)
read_csv(rows) == SeqMap(ReadRow, rows)

-----------------------------------------------------------------------------
(* JobManager *)

RowIds(rows) == {rows[i].job_id : i \in DOMAIN rows}

\* get_existing_job_ids: the empty set when the file is absent or the read
\* fails, else the job_id column as a set.
get_existing_job_ids(file, read_ok) ==
    IF ~file.exists THEN {}
    ELSE IF read_ok THEN RowIds(read_csv(file.rows))
    ELSE {}

\* Mutant of FilterNew: the membership test is lost and every job is new.
FilterNew_KeepAll(batch, existing_ids) == batch

\* The list comprehension of save_new_jobs.
FilterNew(batch, existing_ids) ==
    SelectSeq(batch, LAMBDA job : job.job_id \notin existing_ids)

Columns(records) == UNION {DOMAIN records[i] : i \in DOMAIN records}

\* pd.DataFrame(records): one column per key of any record, NaN where a
\* record has no such key.
DataFrame(records) ==
    [i \in DOMAIN records |->
        [f \in Columns(records) |->
            IF f \in DOMAIN records[i] THEN records[i][f] ELSE NaN]]

\* pd.concat([existing_df, new_df], ignore_index=True)
concat(existing_df, new_df) == DataFrame(existing_df \o new_df)

\* What a failed or interrupted to_csv can leave at temp_path: the file as it
\* was (not opened), or a strict prefix of the rows.
PartialWrites(df, old) ==
    {old} \cup {File(SubSeq(to_csv(df), 1, k)) : k \in 0..(Len(df) - 1)}

InitStore ==
    /\ csv_file = NoFile
    /\ temp_file = NoFile
    /\ save_pc = "idle"
    /\ jobs = <<>>
    /\ new_jobs = <<>>
    /\ combined_df = <<>>
    /\ crashed = FALSE
    /\ raised = FALSE
    /\ pre_file = NoFile
    /\ pre_temp = NoFile
    /\ file_ops = <<>>
    /\ ids_read_failed = FALSE
    /\ failed_step = "none"
    /\ prev_clean = FALSE
    /\ repeat = FALSE

\* save_new_jobs is called: existing ids are read, the batch is filtered, and
\* the call returns at once when nothing is new.
SaveNewJobsCall(batch, read_fails) ==
    /\ save_pc \in {"idle", "done"}
    /\ ~crashed
    /\ (~csv_file.exists => ~read_fails)
    /\ LET existing_ids == get_existing_job_ids(csv_file, ~read_fails)
           filtered == FilterNew(batch, existing_ids)
       IN  /\ Len(csv_file.rows) + Len(filtered) <= MaxRows
           /\ new_jobs' = filtered
           /\ save_pc' = IF filtered = <<>> THEN "done" ELSE "combine"
    /\ jobs' = batch
    /\ combined_df' = <<>>
    /\ raised' = FALSE
    /\ pre_file' = csv_file
    /\ pre_temp' = temp_file
    /\ file_ops' = <<>>
    /\ ids_read_failed' = read_fails
    /\ failed_step' = "none"
    /\ prev_clean' = /\ save_pc = "done"
                      /\ ~ids_read_failed /\ failed_step = "none" /\ ~raised
    /\ repeat' = (save_pc = "done" /\ batch = jobs)
    /\ UNCHANGED <<csv_file, temp_file, crashed>>
    /\ UNCHANGED notStoreVars

\* new_df is built and, when the store exists, read and concatenated.
Combine(read_fails) ==
    /\ save_pc = "combine"
    /\ ~crashed
    /\ (~csv_file.exists => ~read_fails)
    /\ IF ~read_fails
       THEN /\ combined_df' = IF csv_file.exists
                              THEN concat(read_csv(csv_file.rows), DataFrame(new_jobs))
                              ELSE DataFrame(new_jobs)
            /\ save_pc' = "write"
            /\ UNCHANGED failed_step
       ELSE /\ save_pc' = "except"
            /\ failed_step' = "read_csv"
            /\ UNCHANGED combined_df
    /\ UNCHANGED <<csv_file, temp_file, jobs, new_jobs, crashed, raised,
                   pre_file, pre_temp, file_ops, prev_clean, repeat,
                   ids_read_failed>>
    /\ UNCHANGED notStoreVars

\* combined_df.to_csv(self.temp_path, index=False)
WriteTemp(fails) ==
    /\ save_pc = "write"
    /\ ~crashed
    /\ IF ~fails
       THEN /\ temp_file' = File(to_csv(combined_df))
            /\ save_pc' = "remove"
            /\ UNCHANGED failed_step
       ELSE /\ temp_file' \in PartialWrites(combined_df, temp_file)
            /\ save_pc' = "except"
            /\ failed_step' = "to_csv"
    /\ file_ops' = Append(file_ops, "to_csv")
    /\ UNCHANGED <<csv_file, jobs, new_jobs, combined_df, crashed, raised,
                   pre_file, pre_temp, prev_clean, repeat,
                   ids_read_failed>>
    /\ UNCHANGED notStoreVars

\* if os.path.exists(self.csv_path): os.remove(self.csv_path)
RemoveOld(fails) ==
    /\ save_pc = "remove"
    /\ ~crashed
    /\ (~csv_file.exists => ~fails)
    /\ IF ~csv_file.exists
       THEN /\ save_pc' = "rename"
            /\ UNCHANGED <<csv_file, file_ops, failed_step>>
       ELSE IF ~fails
       THEN /\ csv_file' = NoFile
            /\ save_pc' = "rename"
            /\ file_ops' = Append(file_ops, "remove")
            /\ UNCHANGED failed_step
       ELSE /\ save_pc' = "except"
            /\ failed_step' = "remove"
            /\ UNCHANGED <<csv_file, file_ops>>
    /\ UNCHANGED <<temp_file, jobs, new_jobs, combined_df, crashed, raised,
                   pre_file, pre_temp, prev_clean, repeat,
                   ids_read_failed>>
    /\ UNCHANGED notStoreVars

\* os.rename(self.temp_path, self.csv_path)
Rename(fails) ==
    /\ save_pc = "rename"
    /\ ~crashed
    /\ IF ~fails
       THEN /\ csv_file' = temp_file
            /\ temp_file' = NoFile
            /\ save_pc' = "done"
            /\ file_ops' = Append(file_ops, "rename")
            /\ UNCHANGED failed_step
       ELSE /\ save_pc' = "except"
            /\ failed_step' = "rename"
            /\ UNCHANGED <<csv_file, temp_file, file_ops>>
    /\ UNCHANGED <<jobs, new_jobs, combined_df, crashed, raised,
                   pre_file, pre_temp, prev_clean, repeat,
                   ids_read_failed>>
    /\ UNCHANGED notStoreVars

\* The except block: the temporary file is removed if it exists. A failing
\* os.remove leaves the handler as an exception.
Except(fails) ==
    /\ save_pc = "except"
    /\ ~crashed
    /\ (~temp_file.exists => ~fails)
    /\ IF ~temp_file.exists
       THEN UNCHANGED <<temp_file, file_ops, raised>>
       ELSE IF ~fails
       THEN /\ temp_file' = NoFile
            /\ file_ops' = Append(file_ops, "remove_temp")
            /\ UNCHANGED raised
       ELSE /\ raised' = TRUE
            /\ UNCHANGED <<temp_file, file_ops>>
    /\ save_pc' = "done"
    /\ UNCHANGED <<csv_file, jobs, new_jobs, combined_df, crashed,
                   pre_file, pre_temp, failed_step, prev_clean, repeat,
                   ids_read_failed>>
    /\ UNCHANGED notStoreVars

\* The process is interrupted inside the try block. An interruption during
\* to_csv can leave a partial temporary file.
Crash ==
    /\ save_pc \in {"combine", "write", "remove", "rename", "except"}
    /\ ~crashed
    /\ crashed' = TRUE
    /\ IF save_pc = "write"
       THEN temp_file' \in PartialWrites(combined_df, temp_file)
       ELSE UNCHANGED temp_file
    /\ UNCHANGED <<csv_file, save_pc, jobs, new_jobs, combined_df, raised,
                   pre_file, pre_temp, file_ops, failed_step, prev_clean, repeat,
                   ids_read_failed>>
    /\ UNCHANGED notStoreVars

\* A new process starts on the files the interrupted one left.
Restart ==
    /\ crashed
    /\ crashed' = FALSE
    /\ save_pc' = "idle"
    /\ jobs' = <<>>
    /\ new_jobs' = <<>>
    /\ combined_df' = <<>>
    /\ raised' = FALSE
    /\ pre_file' = csv_file
    /\ pre_temp' = temp_file
    /\ file_ops' = <<>>
    /\ ids_read_failed' = FALSE
    /\ failed_step' = "none"
    /\ prev_clean' = FALSE
    /\ repeat' = FALSE
    /\ UNCHANGED <<csv_file, temp_file>>
    /\ UNCHANGED notStoreVars

NextStore ==
    \/ \E batch \in Batches, read_fails \in BOOLEAN :
           SaveNewJobsCall(batch, read_fails)
    \/ \E read_fails \in BOOLEAN : Combine(read_fails)
    \/ \E fails \in BOOLEAN : WriteTemp(fails)
    \/ \E fails \in BOOLEAN : RemoveOld(fails)
    \/ \E fails \in BOOLEAN : Rename(fails)
    \/ \E fails \in BOOLEAN : Except(fails)
    \/ Crash
    \/ Restart

-----------------------------------------------------------------------------
(* AdzunaJobFetcher *)

\* Mutant of max_retries: one attempt more.
max_retries_Four == 3 + 1

max_retries == 3
request_delay == 1
retry_delay == 60

Min(a, b) == IF a <= b THEN a ELSE b

RECURSIVE Flatten(_)
Flatten(pages) ==
    IF pages = <<>> THEN <<>> ELSE Head(pages) \o Flatten(Tail(pages))

\* A listing source with the given page sizes; its items cycle through
\* RawItems, so neighbouring items differ.
SourceOf(sizes) ==
    [p \in DOMAIN sizes |->
        [i \in 1..sizes[p] |->
            RawItems[(((p - 1) * MaxPageItems + (i - 1)) % Len(RawItems)) + 1]]]

Sources ==
    {SourceOf(sizes) : sizes \in UNION {[1..n -> 1..MaxPageItems] : n \in 0..MaxPages}}

\* data.get("results", []) of the page the listing API serves: every page
\* after the last non-empty one is empty.
PageResults(src, p) == IF p \in DOMAIN src THEN src[p] ELSE <<>>

\* The page the listing API serves: a source that never runs dry serves its
\* last page again for every later page number.
Served(src, forever, p) ==
    IF forever /\ p > Len(src) THEN src[Len(src)] ELSE PageResults(src, p)

HttpOutcomes == {"ok", "429", "neterr", "httperr"}

\* Mutant of HandleResponse: an HTTP error status is raised on any attempt.
HandleResponse_RaiseHttpError(outcome, a) ==
    CASE outcome = "ok"      -> [next |-> "return", sleep |-> <<>>]
      [] outcome = "429"     -> [next |-> "continue", sleep |-> <<retry_delay>>]
      [] outcome = "httperr" -> [next |-> "raise", sleep |-> <<>>]
      [] OTHER               -> IF a < max_retries - 1
                                THEN [next |-> "continue", sleep |-> <<request_delay>>]
                                ELSE [next |-> "raise", sleep |-> <<>>]

\* One iteration of the loop of _make_api_request after requests.get, for
\* attempt number a: a 429 sleeps retry_delay and continues; a success
\* returns; a RequestException (a transport error, or the HTTPError that
\* raise_for_status raises for any other error status) sleeps request_delay
\* and goes round again unless this was the last attempt, when it is re-raised.
HandleResponse(outcome, a) ==
    CASE outcome = "ok"  -> [next |-> "return", sleep |-> <<>>]
      [] outcome = "429" -> [next |-> "continue", sleep |-> <<retry_delay>>]
      [] OTHER           -> IF a < max_retries - 1
                            THEN [next |-> "continue", sleep |-> <<request_delay>>]
                            ELSE [next |-> "raise", sleep |-> <<>>]

\* Mutant of ExtendJobs: the page's records are put in front.
ExtendJobs_Prepend(jobs_so_far, results) ==
    SeqMap(JobRecord, results) \o jobs_so_far

\* The for loop over results: one record appended per raw item.
ExtendJobs(jobs_so_far, results) == jobs_so_far \o SeqMap(JobRecord, results)

\* Mutant of ReachedMax: the cap never stops the loop.
ReachedMax_Never(jobs_so_far, cap) == FALSE

\* if max_results and len(all_jobs) >= max_results
ReachedMax(jobs_so_far, cap) == cap # 0 /\ Len(jobs_so_far) >= cap

\* Mutant of Truncate: the slice is forgotten.
Truncate_None(jobs_so_far, cap) == jobs_so_far

\* all_jobs[:max_results] if max_results else all_jobs
Truncate(jobs_so_far, cap) ==
    IF cap # 0 THEN SubSeq(jobs_so_far, 1, Min(cap, Len(jobs_so_far)))
    ELSE jobs_so_far

\* Mutant of AfterPageError: the loop goes on (continue instead of break).
AfterPageError_Continue == "loop"

\* The inner except block of fetch_jobs: break.
AfterPageError == "break"

NoResponse == [outcome |-> "none", attempt |-> 0, slept |-> 0]

InitFetch ==
    /\ source = <<>>
    /\ endless = FALSE
    /\ max_results = 0
    /\ fetch_pc = "idle"
    /\ page = 1
    /\ all_jobs = <<>>
    /\ data = <<>>
    /\ result = <<>>
    /\ attempt = 0
    /\ pages_requested = <<>>
    /\ http_count = 0
    /\ sleeps = <<>>
    /\ last_resp = NoResponse
    /\ any_failure = FALSE
    /\ failed_page = 0

\* fetch_jobs is called on a listing source.
FetchJobsCall(src, forever, cap) ==
    /\ fetch_pc = "idle"
    /\ forever => (src # <<>> /\ cap > 0)
    /\ source' = src
    /\ endless' = forever
    /\ max_results' = cap
    /\ page' = 1
    /\ all_jobs' = <<>>
    /\ fetch_pc' = "loop"
    /\ UNCHANGED <<data, result, attempt, pages_requested, http_count, sleeps,
                   last_resp, any_failure, failed_page>>
    /\ UNCHANGED notFetchVars

\* The top of the while loop: _make_api_request is called for the page.
MakeApiRequestCall ==
    /\ fetch_pc = "loop"
    /\ pages_requested' = Append(pages_requested, page)
    /\ attempt' = 0
    /\ http_count' = 0
    /\ sleeps' = <<>>
    /\ last_resp' = NoResponse
    /\ fetch_pc' = "http"
    /\ UNCHANGED <<source, endless, max_results, page, all_jobs, data, result,
                   any_failure, failed_page>>
    /\ UNCHANGED notFetchVars

\* One iteration of the for loop of _make_api_request: the delay before a
\* repeated attempt, the HTTP request, and the handling of its outcome. When
\* the loop runs out, "Max retries exceeded" is raised.
HttpAttempt(outcome) ==
    /\ fetch_pc = "http"
    /\ LET before == sleeps \o (IF attempt > 0 THEN <<request_delay>> ELSE <<>>)
           h == HandleResponse(outcome, attempt)
       IN  /\ sleeps' = before \o h.sleep
           /\ last_resp' = [outcome |-> outcome, attempt |-> attempt,
                            slept |-> Len(before)]
           /\ CASE h.next = "return" ->
                     /\ data' = Served(source, endless, page)
                     /\ fetch_pc' = "page"
                     /\ UNCHANGED attempt
                [] h.next = "continue" ->
                     /\ attempt' = attempt + 1
                     /\ fetch_pc' = IF attempt + 1 < max_retries
                                    THEN "http" ELSE "page_error"
                     /\ UNCHANGED data
                [] OTHER ->
                     /\ fetch_pc' = "page_error"
                     /\ UNCHANGED <<attempt, data>>
    /\ http_count' = http_count + 1
    /\ any_failure' = (any_failure \/ outcome # "ok")
    /\ UNCHANGED <<source, endless, max_results, page, all_jobs, result,
                   pages_requested, failed_page>>
    /\ UNCHANGED notFetchVars

\* The page arrived: stop on an empty page, else append its records, stop
\* when the cap is reached, else sleep request_delay and go to the next page.
ProcessPage ==
    /\ fetch_pc = "page"
    /\ IF data = <<>>
       THEN /\ fetch_pc' = "break"
            /\ UNCHANGED <<all_jobs, page>>
       ELSE /\ all_jobs' = ExtendJobs(all_jobs, data)
            /\ IF ReachedMax(all_jobs', max_results)
               THEN /\ fetch_pc' = "break"
                    /\ UNCHANGED page
               ELSE /\ fetch_pc' = "loop"
                    /\ page' = page + 1
    /\ UNCHANGED <<source, endless, max_results, data, result, attempt, pages_requested,
                   http_count, sleeps, last_resp, any_failure, failed_page>>
    /\ UNCHANGED notFetchVars

\* _make_api_request raised: the inner except block.
PageError ==
    /\ fetch_pc = "page_error"
    /\ failed_page' = page
    /\ fetch_pc' = AfterPageError
    /\ UNCHANGED <<source, endless, max_results, page, all_jobs, data, result, attempt,
                   pages_requested, http_count, sleeps, last_resp, any_failure>>
    /\ UNCHANGED notFetchVars

\* return all_jobs[:max_results] if max_results else all_jobs
FetchReturn ==
    /\ fetch_pc = "break"
    /\ result' = Truncate(all_jobs, max_results)
    /\ fetch_pc' = "returned"
    /\ UNCHANGED <<source, endless, max_results, page, all_jobs, data, attempt,
                   pages_requested, http_count, sleeps, last_resp, any_failure,
                   failed_page>>
    /\ UNCHANGED notFetchVars

NextFetch ==
    \/ \E src \in Sources, forever \in BOOLEAN, cap \in 0..MaxCap :
           FetchJobsCall(src, forever, cap)
    \/ MakeApiRequestCall
    \/ \E outcome \in HttpOutcomes : HttpAttempt(outcome)
    \/ ProcessPage
    \/ PageError
    \/ FetchReturn

-----------------------------------------------------------------------------
(* ResumeMatchEngine *)

engine_max_retries == 5
base_delay == 2
backoff_cap == 300

RECURSIVE Pow2(_)
Pow2(n) == IF n = 0 THEN 1 ELSE 2 * Pow2(n - 1)

\* Mutant of Delay: the cap is lost.
Delay_NoCap(n) == base_delay * Pow2(n)

\* delay = min(300, self.base_delay * (2 ** retry_count)), in seconds
Delay(n) == Min(backoff_cap, base_delay * Pow2(n))

\* random.uniform(0, 0.1 * delay), in tenths of a second
Jitters(delay) == 0..delay

\* Response texts are sequences of pieces: "{": an opening brace, "}": a
\* closing brace, "F": an object literal with the three scoring members,
\* "J": an object literal with the three scoring members and a job_id
\* member. Positions in a text count pieces.
Tokens == {"{", "}", "F", "J"}
Texts == UNION {[1..n -> Tokens] : n \in 0..MaxTextLen}

\* The piece holds the character: an object literal begins with "{" and ends
\* with "}".
HasChar(piece, c) == piece = c \/ piece \in {"F", "J"}

\* str.find and str.rfind: 0-based index of the first / last occurrence, -1
\* when there is none.
find(text, c) ==
    IF \E i \in DOMAIN text : HasChar(text[i], c)
    THEN (CHOOSE i \in DOMAIN text :
              /\ HasChar(text[i], c)
              /\ \A k \in 1..(i - 1) : ~HasChar(text[k], c)) - 1
    ELSE -1

rfind(text, c) ==
    IF \E i \in DOMAIN text : HasChar(text[i], c)
    THEN (CHOOSE i \in DOMAIN text :
              /\ HasChar(text[i], c)
              /\ \A k \in (i + 1)..Len(text) : ~HasChar(text[k], c)) - 1
    ELSE -1

\* text[start:end]
Slice(text, start, end) == SubSeq(text, start + 1, end)

\* Python values are written as their literals: the number 0 as "0", the
\* empty list as "[]".
FullFields ==
    [score |-> "80", matching_skills |-> "['python']", missing_skills |-> "['sql']"]

ExtraFields ==
    [score |-> "80", matching_skills |-> "['python']", missing_skills |-> "['sql']",
     job_id |-> "Other_Job_LA"]

EmptyDict == [f \in {} |-> ""]

\* json.loads: the parsed object, or JSONDecodeError (ok is FALSE).
json_loads(json_str) ==
    CASE json_str = <<"{", "}">> -> [ok |-> TRUE, value |-> EmptyDict]
      [] json_str = <<"F">> -> [ok |-> TRUE, value |-> FullFields]
      [] json_str = <<"J">> -> [ok |-> TRUE, value |-> ExtraFields]
      [] OTHER -> [ok |-> FALSE, value |-> EmptyDict]

required_fields == {"score", "matching_skills", "missing_skills"}

ZeroScore(error) ==
    [score |-> "0", matching_skills |-> "[]", missing_skills |-> "[]",
     error |-> error]

\* Mutant of ParseResponse: every parse or validation failure returns the
\* "Failed to parse LLM response" result.
ParseResponse_AllFallback(text) ==
    LET start == find(text, "{")
        end == rfind(text, "}") + 1
        parsed == json_loads(Slice(text, start, end))
    IN  IF start # -1 /\ end # 0 /\ parsed.ok
           /\ required_fields \subseteq DOMAIN parsed.value
        THEN [kind |-> "return", value |-> parsed.value]
        ELSE [kind |-> "return", value |-> ZeroScore("Failed to parse LLM response")]

\* The inner try block: the span from the first "{" to the last "}" is
\* parsed and validated. JSONDecodeError is handled there; the two ValueErrors
\* leave the block.
ParseResponse(text) ==
    LET start == find(text, "{")
        end == rfind(text, "}") + 1
    IN  IF start # -1 /\ end # 0
        THEN LET parsed == json_loads(Slice(text, start, end))
             IN  IF ~parsed.ok
                 THEN [kind |-> "return",
                       value |-> ZeroScore("Failed to parse LLM response")]
                 ELSE IF ~(required_fields \subseteq DOMAIN parsed.value)
                 THEN [kind |-> "raise",
                       error |-> "Missing required fields in response"]
                 ELSE [kind |-> "return", value |-> parsed.value]
        ELSE [kind |-> "raise", error |-> "No JSON object found in response"]

\* Error texts of a failing generate_content call.
BackendErrors == {"429 Resource has been exhausted", "500 Internal error"}

\* "429" in error_str, over the error texts of the model.
Contains429(error_str) == error_str = "429 Resource has been exhausted"

\* What the backend does on one call: it answers with a text or fails.
BackendOutcomes ==
    [ok : {TRUE}, text : Texts, error : {""}]
       \cup [ok : {FALSE}, text : {<<>>}, error : BackendErrors]

\* Mutant of OnBackendError: an error that is no rate limit is raised again.
OnBackendError_Reraise(error_str, retries) ==
    IF Contains429(error_str)
    THEN IF retries < engine_max_retries - 1
         THEN [next |-> "retry", value |-> ZeroScore(error_str)]
         ELSE [next |-> "return", value |-> ZeroScore(error_str)]
    ELSE [next |-> "raise", value |-> ZeroScore(error_str)]

\* Mutant of OnBackendError: a rate-limit error with no retries left is
\* raised again.
OnBackendError_RaiseExhausted(error_str, retries) ==
    IF Contains429(error_str)
    THEN IF retries < engine_max_retries - 1
         THEN [next |-> "retry", value |-> ZeroScore(error_str)]
         ELSE [next |-> "raise", value |-> ZeroScore(error_str)]
    ELSE [next |-> "return", value |-> ZeroScore(error_str)]

\* Mutant of OnBackendError: every error is retried.
OnBackendError_RetryAny(error_str, retries) ==
    IF retries < engine_max_retries - 1
    THEN [next |-> "retry", value |-> ZeroScore(error_str)]
    ELSE [next |-> "return", value |-> ZeroScore(error_str)]

\* The except Exception block: a rate-limit error with retries left is slept
\* on and retried, every other error returns a zero-score result.
OnBackendError(error_str, retries) ==
    IF Contains429(error_str) /\ retries < engine_max_retries - 1
    THEN [next |-> "retry", value |-> ZeroScore(error_str)]
    ELSE [next |-> "return", value |-> ZeroScore(error_str)]

NoResult == [status |-> "none"]

InitScore ==
    /\ score_pc = "idle"
    /\ retry_count = 0
    /\ match_result = NoResult
    /\ response_text = <<>>
    /\ call_log = <<>>
    /\ backoff_log = <<>>

\* match_job_to_resume is called.
MatchCall ==
    /\ score_pc \in {"idle", "returned"}
    /\ score_pc' = IF 0 < engine_max_retries THEN "call" ELSE "returned"
    /\ retry_count' = 0
    /\ match_result' = IF 0 < engine_max_retries THEN NoResult
                       ELSE ZeroScore("Max retries reached")
    /\ response_text' = <<>>
    /\ call_log' = <<>>
    /\ backoff_log' = <<>>
    /\ UNCHANGED notScoreVars

\* One iteration of the while loop: generate_content is called, its answer is
\* parsed, an error is handled; a retry sleeps before the loop goes round.
BackendCall(outcome) ==
    /\ score_pc = "call"
    /\ LET parsed == ParseResponse(outcome.text)
           answered == outcome.ok /\ parsed.kind = "return"
           error_str == IF outcome.ok THEN parsed.error ELSE outcome.error
           h == OnBackendError(error_str, retry_count)
       IN  /\ response_text' = outcome.text
           /\ call_log' = Append(call_log, IF answered THEN "" ELSE error_str)
           /\ IF answered
              THEN /\ match_result' = parsed.value
                   /\ score_pc' = "returned"
                   /\ UNCHANGED <<retry_count, backoff_log>>
              ELSE IF h.next = "retry"
              THEN /\ backoff_log' =
                          Append(backoff_log, [retry_count |-> retry_count,
                                               delay |-> Delay(retry_count)])
                   /\ retry_count' = retry_count + 1
                   /\ IF retry_count + 1 < engine_max_retries
                      THEN /\ score_pc' = "call"
                           /\ UNCHANGED match_result
                      ELSE /\ score_pc' = "returned"
                           /\ match_result' = ZeroScore("Max retries reached")
              ELSE IF h.next = "return"
              THEN /\ match_result' = h.value
                   /\ score_pc' = "returned"
                   /\ UNCHANGED <<retry_count, backoff_log>>
              ELSE /\ score_pc' = "raised"
                   /\ UNCHANGED <<retry_count, match_result, backoff_log>>
    /\ UNCHANGED notScoreVars

NextScore ==
    \/ MatchCall
    \/ \E outcome \in BackendOutcomes : BackendCall(outcome)

InitBackoff ==
    /\ backoff_arg = 0
    /\ backoff_delay = 0
    /\ backoff_jitter = 0
    /\ backoff_return = 0

\* _exponential_backoff(retry_count): delay + jitter.
ExponentialBackoffCall(n, jitter) ==
    /\ jitter \in Jitters(Delay(n))
    /\ backoff_arg' = n
    /\ backoff_delay' = Delay(n)
    /\ backoff_jitter' = jitter
    /\ backoff_return' = 10 * Delay(n) + jitter
    /\ UNCHANGED notBackoffVars

NextBackoff ==
    \E n \in 0..MaxRetryCount :
        \E jitter \in Jitters(Delay(n)) : ExponentialBackoffCall(n, jitter)

-----------------------------------------------------------------------------
(* JobSearchPipeline.run_pipeline *)

rate_limit_wait == 60
score_delay == 1

\* dict.update: every key of the argument is set in the record.
Update(job, res) ==
    [f \in DOMAIN job \cup DOMAIN res |->
        IF f \in DOMAIN res THEN res[f] ELSE job[f]]

ScoreEvent(i, error) == [ev |-> "score", job |-> i, error |-> error, secs |-> 0]
SleepEvent(i, secs) == [ev |-> "sleep", job |-> i, error |-> "", secs |-> secs]

\* The error text a finished scoring call carries: the text of the exception
\* it raised, else the error member of its result ("": none).
ScoreError(pc, res, log) ==
    IF pc = "raised" THEN log[Len(log)]
    ELSE IF "error" \in DOMAIN res THEN res.error
    ELSE ""

\* Mutant of AfterScore: the sleep after a scoring call that returned is lost.
AfterScore_NoSleep(pc, error_str, is_retry) ==
    IF pc = "returned"
    THEN [update |-> TRUE, sleep |-> <<>>, next |-> "advance"]
    ELSE IF ~is_retry /\ Contains429(error_str)
    THEN [update |-> FALSE, sleep |-> <<rate_limit_wait>>, next |-> "retry"]
    ELSE [update |-> FALSE, sleep |-> <<>>, next |-> "advance"]

\* The body of the for loop after a scoring call (the first call of a record,
\* or the retry): a call that returned updates the record, and after the
\* first call the loop sleeps 1 s; the except branches run on a call that
\* raised: a first call with "429" in its text is slept on for 60 s and
\* retried once, every other failure goes on to the next record.
AfterScore(pc, error_str, is_retry) ==
    IF pc = "returned"
    THEN [update |-> TRUE,
          sleep |-> IF is_retry THEN <<>> ELSE <<score_delay>>,
          next |-> "advance"]
    ELSE IF ~is_retry /\ Contains429(error_str)
    THEN [update |-> FALSE, sleep |-> <<rate_limit_wait>>, next |-> "retry"]
    ELSE [update |-> FALSE, sleep |-> <<>>, next |-> "advance"]

\* Mutant of OuterExcept: an exception of save_new_jobs leaves run_pipeline.
OuterExcept_Propagate(exc) == exc

\* except Exception around the whole run: the error is logged, nothing
\* propagates.
OuterExcept(exc) == FALSE

InitPipeline ==
    /\ pipe_pc = "idle"
    /\ pipe_jobs = <<>>
    /\ fetched = <<>>
    /\ job_index = 1
    /\ retrying = FALSE
    /\ pipe_log = <<>>
    /\ pipe_raised = FALSE

\* run_pipeline is entered.
RunPipelineCall ==
    /\ pipe_pc = "idle"
    /\ pipe_pc' = "fetching"
    /\ UNCHANGED <<pipe_jobs, fetched, job_index, retrying, pipe_log, pipe_raised>>
    /\ UNCHANGED <<storeVars, fetchVars, scoreVars, backoffVars>>

\* fetch_all_jobs calls the fetcher with max_results = config['max_jobs'].
PipeFetchCall(src, forever, max_jobs) ==
    /\ pipe_pc = "fetching"
    /\ max_jobs > 0
    /\ max_jobs <= MaxRows - Len(csv_file.rows)
    /\ FetchJobsCall(src, forever, max_jobs)

\* fetch_jobs returns into fetch_all_jobs, which returns the list; the for
\* loop over the jobs starts.
PipeFetchReturn ==
    /\ pipe_pc = "fetching"
    /\ fetch_pc = "returned"
    /\ pipe_jobs' = result
    /\ fetched' = result
    /\ job_index' = 1
    /\ pipe_pc' = "scoring"
    \* the fetcher's locals are gone
    /\ source' = <<>>
    /\ endless' = FALSE
    /\ max_results' = 0
    /\ fetch_pc' = "idle"
    /\ page' = 1
    /\ all_jobs' = <<>>
    /\ data' = <<>>
    /\ result' = <<>>
    /\ attempt' = 0
    /\ pages_requested' = <<>>
    /\ http_count' = 0
    /\ sleeps' = <<>>
    /\ last_resp' = NoResponse
    /\ any_failure' = FALSE
    /\ failed_page' = 0
    /\ UNCHANGED <<retrying, pipe_log, pipe_raised>>
    /\ UNCHANGED <<storeVars, scoreVars, backoffVars>>

\* match_job_to_resume is called for the current record.
PipeScoreCall ==
    /\ pipe_pc = "scoring"
    /\ job_index <= Len(pipe_jobs)
    /\ score_pc = "idle"
    /\ MatchCall

\* The scoring call of the current record is over.
PipeAfterScore ==
    /\ pipe_pc = "scoring"
    /\ score_pc \in {"returned", "raised"}
    /\ LET error_str == ScoreError(score_pc, match_result, call_log)
           a == AfterScore(score_pc, error_str, retrying)
       IN  /\ pipe_jobs' =
                  IF a.update
                  THEN [pipe_jobs EXCEPT
                           ![job_index] = Update(pipe_jobs[job_index], match_result)]
                  ELSE pipe_jobs
           /\ pipe_log' = Append(pipe_log, ScoreEvent(job_index, error_str))
                            \o [k \in DOMAIN a.sleep |-> SleepEvent(job_index, a.sleep[k])]
           /\ job_index' = IF a.next = "retry" THEN job_index ELSE job_index + 1
           /\ retrying' = (a.next = "retry")
    \* the engine's locals are gone
    /\ score_pc' = "idle"
    /\ retry_count' = 0
    /\ match_result' = NoResult
    /\ response_text' = <<>>
    /\ call_log' = <<>>
    /\ backoff_log' = <<>>
    /\ UNCHANGED <<pipe_pc, fetched, pipe_raised>>
    /\ UNCHANGED <<storeVars, fetchVars, backoffVars>>

\* The for loop is over.
PipeLoopEnd ==
    /\ pipe_pc = "scoring"
    /\ job_index > Len(pipe_jobs)
    /\ pipe_pc' = "persisting"
    /\ UNCHANGED <<pipe_jobs, fetched, job_index, retrying, pipe_log, pipe_raised>>
    /\ UNCHANGED <<storeVars, fetchVars, scoreVars, backoffVars>>

\* self.job_manager.save_new_jobs(jobs)
PipeSaveCall(read_fails) ==
    /\ pipe_pc = "persisting"
    /\ save_pc = "idle"
    /\ SaveNewJobsCall(pipe_jobs, read_fails)

\* save_new_jobs is over: the run ends, an exception is caught and logged.
PipeSaveReturn ==
    /\ pipe_pc = "persisting"
    /\ save_pc = "done"
    /\ pipe_pc' = "done"
    /\ pipe_raised' = OuterExcept(raised)
    /\ UNCHANGED <<pipe_jobs, fetched, job_index, retrying, pipe_log>>
    /\ UNCHANGED <<storeVars, fetchVars, scoreVars, backoffVars>>

NextPipeline ==
    \/ RunPipelineCall
    \/ \E src \in Sources, forever \in BOOLEAN, max_jobs \in 1..MaxCap :
           PipeFetchCall(src, forever, max_jobs)
    \/ MakeApiRequestCall
    \/ \E outcome \in HttpOutcomes : HttpAttempt(outcome)
    \/ ProcessPage
    \/ PageError
    \/ FetchReturn
    \/ PipeFetchReturn
    \/ PipeScoreCall
    \/ \E outcome \in BackendOutcomes : BackendCall(outcome)
    \/ PipeAfterScore
    \/ PipeLoopEnd
    \/ \E read_fails \in BOOLEAN : PipeSaveCall(read_fails)
    \/ \E read_fails \in BOOLEAN : Combine(read_fails)
    \/ \E fails \in BOOLEAN : WriteTemp(fails)
    \/ \E fails \in BOOLEAN : RemoveOld(fails)
    \/ \E fails \in BOOLEAN : Rename(fails)
    \/ \E fails \in BOOLEAN : Except(fails)
    \/ PipeSaveReturn

-----------------------------------------------------------------------------
(* Specifications *)

Init == InitStore /\ InitFetch /\ InitScore /\ InitBackoff /\ InitPipeline

SpecStore == Init /\ [][NextStore]_vars

SpecFetch == Init /\ [][NextFetch]_vars

SpecScore == Init /\ [][NextScore]_vars

SpecBackoff == Init /\ [][NextBackoff]_vars

SpecPipeline == Init /\ [][NextPipeline]_vars

\* run_pipeline runs in one thread that is never suspended for ever: some
\* step is taken whenever one can be.
SpecPipelineFair == SpecPipeline /\ WF_vars(NextPipeline)

-----------------------------------------------------------------------------
(* Properties of the store *)

NoDuplicateIds(rows) ==
    \A i, k \in DOMAIN rows : rows[i].job_id = rows[k].job_id => i = k

Returned == save_pc = "done" /\ ~crashed

\* The batch records whose job_id is not in the store the call started on.
Unseen == FilterNew(jobs, RowIds(pre_file.rows))

\* C1: after any sequence of save_new_jobs calls from an absent store, no two
\* rows of the store file share a job_id.
C1_UniqueJobIds == NoDuplicateIds(csv_file.rows)

\* C2: after an interruption between the write of the temporary file and the
\* completion of the rename, the store file is the pre-merge store.
C2_CrashLeavesOldStore ==
    (crashed /\ save_pc \in {"remove", "rename"}) => csv_file = pre_file

\* C3: at every instant of a save_new_jobs call on an existing store, the
\* store file is the complete old store or the complete new store.
C3_OldOrNewStore ==
    (pre_file.exists /\ save_pc # "idle")
        => csv_file \in {pre_file, File(pre_file.rows \o to_csv(new_jobs))}

\* C4: when a step of the combine/write sequence failed and save_new_jobs
\* has returned, the temporary file does not exist and the store file is
\* unchanged.
C4_FailureLeavesStore ==
    (Returned /\ ~raised /\ failed_step # "none")
        => (~temp_file.exists /\ csv_file = pre_file)

\* C5: a save_new_jobs call with the batch of the call before it (both
\* without I/O failure) has an empty filtered set, returns at once, performs
\* no file operation and leaves the store and the temporary path as they were.
C5_SecondMergeNoOp ==
    (save_pc # "idle" /\ ~crashed /\ repeat /\ prev_clean
     /\ ~ids_read_failed /\ failed_step = "none")
        => /\ save_pc = "done"
           /\ new_jobs = <<>>
           /\ file_ops = <<>>
           /\ csv_file = pre_file
           /\ temp_file = pre_temp

C5_Witness ==
    /\ Returned /\ repeat /\ prev_clean
    /\ ~ids_read_failed /\ failed_step = "none"
    /\ Len(jobs) = 2
    /\ jobs[1].job_id # jobs[2].job_id
    /\ csv_file = File(to_csv(jobs))

\* C6: after any save_new_jobs call the store is unchanged, or is the old
\* store followed by exactly the batch records whose job_id was not in the
\* store, in batch order.
C6_AppendOnly ==
    Returned
        => \/ csv_file = pre_file
           \/ /\ Unseen # <<>>
              /\ csv_file = File(pre_file.rows \o to_csv(Unseen))

C6_Witness ==
    /\ Returned /\ pre_file.exists /\ Len(jobs) = 2
    /\ csv_file = File(pre_file.rows \o to_csv(<<jobs[2]>>))

-----------------------------------------------------------------------------
(* Properties of the fetcher *)

\* One record per raw item of the source, in page order.
AllRecords == SeqMap(JobRecord, Flatten(source))

\* The records of the pages before page k.
RecordsBefore(k) ==
    SeqMap(JobRecord, Flatten([p \in 1..(k - 1) |-> Served(source, endless, p)]))

\* The sleeps of the current _make_api_request after its latest response.
SleepsAfterResponse == SubSeq(sleeps, last_resp.slept + 1, Len(sleeps))

RequestOver == fetch_pc \in {"page_error", "break", "returned"}

\* C7: with no cap and no failed request, fetch_jobs requests pages
\* 1..N+1 in order, each once, and returns one record per raw item of the N
\* non-empty pages, in page order and item order.
C7_PaginationToExhaustion ==
    (fetch_pc = "returned" /\ max_results = 0 /\ ~any_failure)
        => /\ pages_requested = [k \in 1..(Len(source) + 1) |-> k]
           /\ result = AllRecords

C7_Witness ==
    /\ fetch_pc = "returned" /\ max_results = 0 /\ ~any_failure
    /\ Len(source) = 2
    /\ Len(result) = 4

\* C8: with a positive cap and no failed request, fetch_jobs returns the
\* first min(max_results, A) records of the source; the result is never
\* longer than the cap, and no page is requested once all_jobs has reached it.
C8_CapEnforcement ==
    /\ (fetch_pc = "returned" /\ max_results > 0 /\ ~any_failure /\ ~endless)
          => result = SubSeq(AllRecords, 1, Min(max_results, Len(AllRecords)))
    /\ (fetch_pc = "returned" /\ max_results > 0)
          => Len(result) <= max_results
    /\ (fetch_pc \in {"loop", "http", "page", "page_error"} /\ max_results > 0)
          => Len(all_jobs) < max_results

C8_Witness ==
    /\ fetch_pc = "returned" /\ ~any_failure
    /\ max_results = 3
    /\ Len(all_jobs) = 4
    /\ Len(result) = 3

\* C9: when the request for page k has failed, no further page is
\* requested, fetch_jobs returns normally, and the result is the records of
\* pages 1..k-1 (cut to max_results under a cap).
C9_PartialResults ==
    failed_page > 0
        => /\ fetch_pc \in {"break", "returned"}
           /\ pages_requested = [k \in 1..failed_page |-> k]
           /\ fetch_pc = "returned"
                 => result = Truncate(RecordsBefore(failed_page), max_results)

C9_Witness ==
    /\ fetch_pc = "returned"
    /\ failed_page = 2
    /\ Len(result) = 2

\* C10 as stated: a response with an HTTP error status other than 429 ends
\* _make_api_request at once, with no sleep and no further request.
C10_HttpErrorFailsAtOnce ==
    last_resp.outcome = "httperr"
        => (RequestOver /\ SleepsAfterResponse = <<>>)

\* C10 as amended: such a response on the first or second attempt is
\* followed by a sleep of request_delay and another attempt; only on the last
\* attempt is the error raised, with no sleep.
C10_HttpErrorRetriedUntilLast ==
    last_resp.outcome = "httperr"
        => IF last_resp.attempt < max_retries - 1
           THEN /\ fetch_pc = "http"
                /\ attempt = last_resp.attempt + 1
                /\ SleepsAfterResponse = <<request_delay>>
           ELSE /\ RequestOver
                /\ SleepsAfterResponse = <<>>

C10_Witness ==
    /\ last_resp.outcome = "httperr"
    /\ last_resp.attempt = 0
    /\ fetch_pc = "http"
    /\ http_count = 1

\* C11: one _make_api_request call issues at most 3 HTTP requests, hands a
\* body back only after a successful response, and ends in failure when its
\* third attempt ends in a 429 or an error.
C11_BoundedAttempts ==
    /\ http_count <= 3
    /\ fetch_pc = "page" => last_resp.outcome = "ok"
    /\ (http_count = 3 /\ last_resp.outcome # "ok") => RequestOver
    /\ fetch_pc = "page_error" => last_resp.outcome # "ok"

C11_Witness ==
    /\ fetch_pc = "page_error"
    /\ http_count = 3
    /\ sleeps = <<retry_delay, request_delay, retry_delay, request_delay, retry_delay>>

\* Steps fetch_jobs can still take: the pages the cap still allows, then the
\* position inside the current page.
FetchRank ==
    10 * (max_results - Len(pages_requested))
      + (CASE fetch_pc = "http" -> 7 - attempt
           [] fetch_pc \in {"page", "page_error"} -> 4
           [] fetch_pc = "loop" -> 2
           [] fetch_pc = "break" -> 1
           [] OTHER -> 0)

\* C20: under a positive cap, whatever the source serves, every step of
\* fetch_jobs uses up a bounded budget: at most max_results pages are
\* requested, each with at most 3 HTTP requests, so the call terminates.
C20_TerminatesUnderCap ==
    [][(fetch_pc # "idle" /\ max_results > 0)
          => /\ Len(pages_requested') <= max_results
             /\ http_count' <= 3
             /\ FetchRank' < FetchRank
             /\ FetchRank' >= 0]_vars

C20_Witness ==
    /\ fetch_pc = "returned"
    /\ endless
    /\ ~any_failure
    /\ max_results = 3
    /\ Len(pages_requested) = 3

-----------------------------------------------------------------------------
(* Properties of the scoring engine *)

\* The latest backend call of a finished match_job_to_resume answered.
ScoreAnswered ==
    /\ score_pc = "returned"
    /\ call_log # <<>>
    /\ call_log[Len(call_log)] \notin BackendErrors

Opens(text) == {i \in DOMAIN text : text[i] \in {"{", "F", "J"}}
Closes(text) == {i \in DOMAIN text : text[i] \in {"}", "F", "J"}}

\* The pieces from the first "{" through the last "}".
Span(text) ==
    SubSeq(text, CHOOSE i \in Opens(text) : \A k \in Opens(text) : i <= k,
                 CHOOSE i \in Closes(text) : \A k \in Closes(text) : k <= i)

NoBraces(text) == Opens(text) = {} \/ Closes(text) = {}
InvalidSpan(text) == ~NoBraces(text) /\ ~json_loads(Span(text)).ok
LacksField(text) ==
    /\ ~NoBraces(text)
    /\ json_loads(Span(text)).ok
    /\ ~(required_fields \subseteq DOMAIN json_loads(Span(text)).value)

\* C12: whenever the backend answers and the text has no "{" ... "}" span, or
\* the span is not valid JSON, or the parsed object lacks a required field,
\* match_job_to_resume returns the zero-score result with the error text
\* "Failed to parse LLM response".
C12_ParseFallback ==
    (/\ ScoreAnswered
     /\ \/ NoBraces(response_text)
        \/ InvalidSpan(response_text)
        \/ LacksField(response_text))
       => match_result = ZeroScore("Failed to parse LLM response")

\* C12, amended: the three cases return zero-score results with three error
\* texts: "No JSON object found in response" when "{" or "}" is absent,
\* "Failed to parse LLM response" when the span is not valid JSON, "Missing
\* required fields in response" when the parsed object lacks a field.
C12_ParseFallbackTexts ==
    ScoreAnswered =>
       /\ NoBraces(response_text)
             => match_result = ZeroScore("No JSON object found in response")
       /\ InvalidSpan(response_text)
             => match_result = ZeroScore("Failed to parse LLM response")
       /\ LacksField(response_text)
             => match_result = ZeroScore("Missing required fields in response")

C12_Witness ==
    /\ ScoreAnswered
    /\ response_text = <<"{", "}">>
    /\ match_result = ZeroScore("Missing required fields in response")

\* C13: match_job_to_resume never raises: whatever the backend does, the call
\* makes at most 5 backend calls and then returns a value; after a failure
\* that value is a zero-score result carrying an error text.
C13_NeverRaises ==
    /\ score_pc # "raised"
    /\ Len(call_log) <= 5
    /\ score_pc = "call" => Len(call_log) < 5
    /\ score_pc = "returned" => match_result # NoResult
    /\ (score_pc = "returned" /\ call_log[Len(call_log)] # "")
          => /\ match_result.score = "0"
             /\ match_result.matching_skills = "[]"
             /\ match_result.missing_skills = "[]"
             /\ match_result.error = call_log[Len(call_log)]

C13_Witness ==
    /\ score_pc = "returned"
    /\ Len(call_log) = 5
    /\ \A i \in DOMAIN call_log : Contains429(call_log[i])
    /\ match_result = ZeroScore("429 Resource has been exhausted")

\* C14: one invocation makes at most 5 backend calls; every call but the
\* latest ended in an error whose text contains "429" and was followed by one
\* backoff sleep, computed from retry counts 0, 1, 2, 3 in that order; a
\* failure without "429" is the latest call of a finished invocation, with
\* no sleep after it.
C14_RetryProtocol ==
    LET retried == IF score_pc = "call" THEN Len(call_log)
                   ELSE Len(call_log) - 1
    IN  /\ Len(call_log) <= 5
        /\ \A i \in 1..retried : Contains429(call_log[i])
        /\ Len(backoff_log) = (IF retried < 0 THEN 0 ELSE retried)
        /\ Len(backoff_log) <= 4
        /\ \A i \in DOMAIN backoff_log :
              /\ backoff_log[i].retry_count = i - 1
              /\ backoff_log[i].delay = <<2, 4, 8, 16>>[i]
        /\ retry_count = Len(backoff_log)

C14_Witness ==
    /\ score_pc = "returned"
    /\ Len(call_log) = 5
    /\ call_log[5] = ""
    /\ Len(backoff_log) = 4
    /\ match_result = FullFields

\* C15: ignoring jitter, _exponential_backoff(retryCount) computes
\* min(300, 2 * 2^retryCount): 2, 4, 8, 16, 32 for 0..4; the delay never
\* decreases as retryCount grows and never exceeds 300; the jitter added is
\* between 0 and a tenth of the delay.
C15_BackoffGrowth ==
    backoff_return > 0 =>
       /\ backoff_delay = (IF 2 * Pow2(backoff_arg) < 300
                           THEN 2 * Pow2(backoff_arg) ELSE 300)
       /\ backoff_arg <= 4 => backoff_delay = <<2, 4, 8, 16, 32>>[backoff_arg + 1]
       /\ backoff_delay <= 300
       /\ \A m \in 0..backoff_arg : Delay(m) <= backoff_delay
       /\ backoff_return - backoff_jitter = 10 * backoff_delay
       /\ backoff_jitter \in 0..backoff_delay

C15_Witness ==
    /\ backoff_arg = 8
    /\ backoff_delay = 300
    /\ backoff_return = 3300

-----------------------------------------------------------------------------
(* Properties of the pipeline *)

\* The scoring call logged at k is the retry of the except branch.
IsRetry(k) ==
    /\ k > 1
    /\ pipe_log[k - 1].ev = "sleep"
    /\ pipe_log[k - 1].secs = 60

ScoredRecords == {pipe_log[k].job : k \in {n \in DOMAIN pipe_log : pipe_log[n].ev = "score"}}

\* C16: when the scoring call of a record fails with an error whose text
\* contains "429", run_pipeline sleeps 60 s and makes exactly one more
\* scoring call for that record, then goes on; every fetched record gets a
\* scoring attempt and the whole batch is handed to save_new_jobs.
C16_OneShotRetry ==
    /\ \A k \in DOMAIN pipe_log :
          (/\ pipe_log[k].ev = "score"
           /\ Contains429(pipe_log[k].error)
           /\ ~IsRetry(k))
             => /\ k + 1 <= Len(pipe_log)
                /\ pipe_log[k + 1] = SleepEvent(pipe_log[k].job, 60)
                /\ k + 2 <= Len(pipe_log)
                      => /\ pipe_log[k + 2].ev = "score"
                         /\ pipe_log[k + 2].job = pipe_log[k].job
                /\ k + 3 <= Len(pipe_log)
                      => pipe_log[k + 3].job # pipe_log[k].job
    /\ pipe_pc \in {"persisting", "done"} => ScoredRecords = DOMAIN fetched
    /\ save_pc # "idle" => Len(jobs) = Len(fetched)

PhaseRank ==
    CASE pipe_pc = "idle" -> 0
      [] pipe_pc = "fetching" -> 1
      [] pipe_pc = "scoring" -> 2
      [] pipe_pc = "persisting" -> 3
      [] pipe_pc = "done" -> 4

\* Steps a run can still take: a bound on the steps left in each phase. Every
\* step of the run lowers it, so no run goes on for ever.
PipeRank ==
    (4 - PhaseRank)
      + (IF pipe_pc \in {"idle", "fetching"} /\ fetch_pc = "idle"
         THEN 10 * MaxCap + 10 ELSE FetchRank)
      + (IF pipe_pc \in {"idle", "fetching"}
         THEN 7 * MaxRows
         ELSE 7 * (Len(pipe_jobs) + 1 - job_index)
                - (IF score_pc = "idle" THEN 0 ELSE 1 + Len(call_log)))
      + (CASE save_pc = "idle" -> 7
           [] save_pc = "combine" -> 5
           [] save_pc = "write" -> 4
           [] save_pc = "remove" -> 3
           [] save_pc = "rename" -> 2
           [] save_pc = "except" -> 1
           [] OTHER -> 0)

\* C17: a run goes through Fetching, Scoring, Persisting, Done in that order
\* and never back; save_new_jobs is called at most once, with the whole
\* batch, after every fetched record had a scoring attempt; no exception
\* leaves run_pipeline; and whatever fails in fetching, scoring or
\* persisting the run reaches Done: before Done some step can always be
\* taken, and every step uses up the bounded budget PipeRank.
C17_GracefulRun ==
    [][/\ PhaseRank' \in {PhaseRank, PhaseRank + 1}
       /\ save_pc = "done" => UNCHANGED storeVars
       /\ fetch_pc' # "idle" => pipe_pc' = "fetching"
       /\ score_pc' # "idle" => pipe_pc' = "scoring"
       /\ save_pc' # "idle" => /\ pipe_pc' \in {"persisting", "done"}
                               /\ ScoredRecords' = DOMAIN fetched'
                               /\ jobs' = pipe_jobs'
       /\ ~pipe_raised'
       /\ PipeRank' < PipeRank
       /\ PipeRank' >= 0
       /\ pipe_pc' # "done" => (ENABLED NextPipeline)']_vars

\* The same run under weak fairness of its steps reaches Done.
ReachesDone == <>(pipe_pc = "done")

C17_Witness ==
    /\ pipe_pc = "done"
    /\ Len(fetched) = 2
    /\ \E k \in DOMAIN pipe_log : pipe_log[k].error = "500 Internal error"
    /\ failed_step = "to_csv"
    /\ raised
    /\ ~pipe_raised

\* C18: a 1 s sleep precedes every scoring call of run_pipeline, the first
\* call of the run included.
C18_SleepBeforeEveryScore ==
    \A k \in DOMAIN pipe_log :
        pipe_log[k].ev = "score"
           => /\ k > 1
              /\ pipe_log[k - 1].ev = "sleep"
              /\ pipe_log[k - 1].secs = 1

\* C18, amended: the 1 s sleep comes after each scoring call: every scoring
\* call is directly followed by a 1 s sleep, whatever its result, so every
\* scoring call but the first of the run is preceded by one; no sleep
\* precedes the first.
C18_SleepAfterEveryScore ==
    /\ pipe_log # <<>> => pipe_log[1].ev = "score"
    /\ \A k \in DOMAIN pipe_log :
          pipe_log[k].ev = "score"
             => /\ k + 1 <= Len(pipe_log)
                /\ pipe_log[k + 1] = SleepEvent(pipe_log[k].job, 1)
                /\ k > 1 => pipe_log[k - 1] = SleepEvent(pipe_log[k].job - 1, 1)

C18_Witness ==
    /\ Len(pipe_log) = 4
    /\ pipe_log[1].error = "429 Resource has been exhausted"
    /\ pipe_log[3] = ScoreEvent(2, "")

\* C19: scoring a record leaves its job_id and its other fetch-assigned
\* attributes as fetched and adds nothing but score, matching_skills,
\* missing_skills and error.
C19_ScoringOnlyAdds ==
    \A i \in DOMAIN pipe_jobs :
        /\ \A f \in DOMAIN fetched[i] : pipe_jobs[i][f] = fetched[i][f]
        /\ DOMAIN pipe_jobs[i] \subseteq
              DOMAIN fetched[i] \cup {"score", "matching_skills", "missing_skills", "error"}

ScoreCalls(i) ==
    Cardinality({k \in DOMAIN pipe_log :
                    pipe_log[k].ev = "score" /\ pipe_log[k].job = i})

\* C21: in run_pipeline match_job_to_resume is invoked exactly once for every
\* fetched record; the call never raises, so the except branch (the 60 s
\* sleep and the retry) never runs; every record handed to save_new_jobs
\* carries score, matching_skills and missing_skills.
C21_OneCallNoRetry ==
    /\ score_pc # "raised"
    /\ ~retrying
    /\ \A k \in DOMAIN pipe_log :
          /\ pipe_log[k].ev = "sleep" => pipe_log[k].secs # 60
          /\ ~IsRetry(k)
    /\ \A i \in DOMAIN fetched :
          /\ ScoreCalls(i) <= 1
          /\ i < job_index => ScoreCalls(i) = 1
    /\ pipe_pc \in {"persisting", "done"}
          => \A i \in DOMAIN fetched : ScoreCalls(i) = 1
    /\ save_pc # "idle"
          => /\ Len(jobs) = Len(fetched)
             /\ \A i \in DOMAIN jobs : required_fields \subseteq DOMAIN jobs[i]

C21_Witness ==
    /\ pipe_pc = "done"
    /\ Len(fetched) = 2
    /\ pipe_log[1] = ScoreEvent(1, "429 Resource has been exhausted")
    /\ pipe_log[3] = ScoreEvent(2, "500 Internal error")
    /\ Len(jobs) = 2

====
